---- MODULE Spec2Model ----
(***************************************************************************)
(* The SSH transport session of plumbing/transport/ssh/common.go as a      *)
(* state machine: the fields of the session struct, the ssh library        *)
(* objects (clients, command channels) the session creates, and the        *)
(* goroutines started by runCommand.                                        *)
(***************************************************************************)
EXTENDS Integers, Sequences, FiniteSets, Bags, TLC

\* ------------------------------------------------------------------ bounds
\* Successful ssh.Dial calls over the life of one session.
MaxDials == 2
\* runCommand calls over the life of one session.
MaxCalls == 2

\* --------------------------------------------------------------- constants
\* The nil error, and the errors of common.go and of the calls it makes.
Nil == "nil"
ErrAlreadyConnected == "ssh session already created"
ErrNotConnected == "not connected"
ErrInvalidAuthMethod == "invalid auth method"
ErrAgent == "ssh agent unavailable"
ErrDial == "dial failed"
ErrOpenSession == "cannot open SSH session"
ErrStdin == "cannot pipe remote stdin"
ErrStdout == "cannot pipe remote stdout"
ErrClientClose == "client close failed"
ErrSessionStarted == "ssh: session already started"
ErrRun == "ssh: remote command or connection failed"

\* endpoint.User is nil (NoUser) or carries a username.
NoUser == "<nil>"
Users == {"git"}

\* Auth values: the nil AuthMethod, the agent-based default for a username,
\* and the values a caller hands to SetAuth.  HTTPBasicAuth is a
\* transport.AuthMethod that is not an ssh AuthMethod.
NilAuth == [kind |-> "nil", user |-> ""]
AgentAuth(u) == [kind |-> "PublicKeysCallback", user |-> u]
SSHAuths == {[kind |-> "Password", user |-> "git"]}
OtherAuths == {[kind |-> "HTTPBasicAuth", user |-> "git"], NilAuth}

VARIABLES
    endpoint,   \* s.endpoint (only User is read here)
    connected,  \* s.connected
    client,     \* s.client: 0 is nil, else an index of clients
    session,    \* s.session: 0 is nil, else an index of chans
    stdin,      \* s.stdin: 0 is nil, else the channel whose stdin pipe it is
    stdout,     \* s.stdout: 0 is nil, else the channel whose stdout pipe it is
    auth,       \* s.auth
    clients,    \* every *ssh.Client a Dial returned: the number of Close
                \* calls made on it
    chans,      \* every *ssh.Session a NewSession returned: its client, the
                \* library's started flag, the remote commands started on it
    calls,      \* the bag of runCommand calls: each one's goroutine and the
                \* value on its done channel
    explicit,   \* the AuthMethod last accepted by SetAuth (NilAuth: none)
    everClosed, \* Close() has been called on this session while Connected
    ret         \* the last method call: name, returned error, what it did

vars == <<endpoint, connected, client, session, stdin, stdout, auth,
          clients, chans, calls, explicit, everClosed, ret>>

\* The tree package (part_000) shares no state with the session.
VARIABLES
    input,      \* the records, and the length in bytes, an object was cut from
    split,      \* the most bytes one read of the object's reader returns
    ch,         \* i.ch of a TreeIter: the objects its feed holds, and whether
                \* the feed has closed it
    result      \* what the last call on the tree package returned

decodeVars == <<input, split, ch, result>>

VARIABLES
    repo,       \* what the repository holds: for each level of nesting, what
                \* the tree object of that level names
    store,      \* t.r.Storage: the objects of the repository, by hash
    stack,      \* the calls of walkEntries in progress, innermost last
    files,      \* the channel Files() made: its buffer, the times it was closed
    got         \* the bag of Files the consumer has received

walkVars == <<repo, store, stack, files, got>>

treeVars == <<decodeVars, walkVars>>

allVars == <<vars, treeVars>>

\* No TreeIter exists.
DecodeIdle ==
    /\ input = <<>>
    /\ split = 0
    /\ ch = [items |-> <<>>, closed |-> FALSE]
    /\ result = [op |-> "none"]

\* Files() has not been called.
WalkIdle ==
    /\ stack = <<>>
    /\ files = [made |-> FALSE, buf |-> <<>>, closes |-> 0]
    /\ got = EmptyBag

\* No repository is open.
NoRepo == repo = <<>> /\ store = <<>>

TreeIdle == DecodeIdle /\ NoRepo /\ WalkIdle

fields == <<connected, client, session, stdin, stdout, auth>>

\* A goroutine that dereferenced a nil pointer has ended the process.
Crashed == \E c \in BagToSet(calls) : c.pc = "panicked"

\* The record of a method call that returns now.  seq flips on every call,
\* conn is s.connected as the call found it, dialAuth is the auth handed to
\* ssh.Dial by this call (NilAuth: no dial), dialled the client it returned.
Ret(op, err, dialAuth, dialled) ==
    [op |-> op, err |-> err, seq |-> 1 - ret.seq, conn |-> connected,
     dialAuth |-> dialAuth, dialled |-> dialled]

\* A client (a channel) is open while nothing has called Close on the client.
ClientOpen(c) == clients[c].closeCalls = 0
ChanOpen(h) == ClientOpen(chans[h].client)

\* A session as constructed for the endpoint e.
NewSession(e) ==
    /\ endpoint = e
    /\ connected = FALSE
    /\ client = 0
    /\ session = 0
    /\ stdin = 0
    /\ stdout = 0
    /\ auth = NilAuth
    /\ clients = <<>>
    /\ chans = <<>>
    /\ calls = EmptyBag
    /\ explicit = NilAuth
    /\ everClosed = FALSE
    /\ ret = [op |-> "new", err |-> Nil, seq |-> 0, conn |-> FALSE,
              dialAuth |-> NilAuth, dialled |-> 0]

Init ==
    /\ \E u \in Users \cup {NoUser} : NewSession([User |-> u])
    /\ TreeIdle

\* ----------------------------------------------------------------- SetAuth
\* SetAuth storing the result of the type assertion before it tests it.
SetAuth_AssignFirst(a) ==
    /\ ~Crashed
    /\ IF a \notin SSHAuths
       THEN /\ auth' = NilAuth
            /\ ret' = Ret("SetAuth", ErrInvalidAuthMethod, NilAuth, 0)
            /\ UNCHANGED explicit
       ELSE /\ auth' = a
            /\ explicit' = a
            /\ ret' = Ret("SetAuth", Nil, NilAuth, 0)
    /\ UNCHANGED <<endpoint, connected, client, session, stdin, stdout,
                   clients, chans, calls, everClosed>>

\* a is the transport.AuthMethod handed in: the type assertion succeeds for
\* the values of SSHAuths only.
SetAuth(a) ==
    /\ ~Crashed
    /\ IF a \notin SSHAuths
       THEN /\ ret' = Ret("SetAuth", ErrInvalidAuthMethod, NilAuth, 0)
            /\ UNCHANGED <<auth, explicit>>
       ELSE /\ auth' = a
            /\ explicit' = a
            /\ ret' = Ret("SetAuth", Nil, NilAuth, 0)
    /\ UNCHANGED <<endpoint, connected, client, session, stdin, stdout,
                   clients, chans, calls, everClosed>>

\* ------------------------------------------------------------------- Close
Close_KeepConnectedOnError(closeErr) ==
    /\ ~Crashed
    /\ IF ~connected
       THEN /\ ret' = Ret("Close", Nil, NilAuth, 0)
            /\ UNCHANGED <<connected, clients, everClosed>>
       ELSE /\ connected' = (closeErr # Nil)
            /\ clients' = [clients EXCEPT ![client].closeCalls = @ + 1]
            /\ everClosed' = TRUE
            /\ ret' = Ret("Close", closeErr, NilAuth, 0)
    /\ UNCHANGED <<endpoint, client, session, stdin, stdout, auth, chans,
                   calls, explicit>>

Close_NoGuard(closeErr) ==
    /\ ~Crashed
    /\ connected' = FALSE
    /\ clients' = IF client = 0 THEN clients
                  ELSE [clients EXCEPT ![client].closeCalls = @ + 1]
    /\ everClosed' = (everClosed \/ connected)
    /\ ret' = Ret("Close", IF client = 0 THEN Nil ELSE closeErr, NilAuth, 0)
    /\ UNCHANGED <<endpoint, client, session, stdin, stdout, auth, chans,
                   calls, explicit>>

Close_NoClientClose(closeErr) ==
    /\ ~Crashed
    /\ IF ~connected
       THEN /\ ret' = Ret("Close", Nil, NilAuth, 0)
            /\ UNCHANGED <<connected, everClosed>>
       ELSE /\ connected' = FALSE
            /\ everClosed' = TRUE
            /\ ret' = Ret("Close", Nil, NilAuth, 0)
    /\ UNCHANGED <<endpoint, client, session, stdin, stdout, auth, clients,
                   chans, calls, explicit>>

Close_StayConnected(closeErr) ==
    /\ ~Crashed
    /\ IF ~connected
       THEN /\ ret' = Ret("Close", Nil, NilAuth, 0)
            /\ UNCHANGED <<clients, everClosed>>
       ELSE /\ clients' = [clients EXCEPT ![client].closeCalls = @ + 1]
            /\ everClosed' = TRUE
            /\ ret' = Ret("Close", closeErr, NilAuth, 0)
    /\ UNCHANGED <<endpoint, connected, client, session, stdin, stdout, auth,
                   chans, calls, explicit>>

\* closeErr is what s.client.Close() returns.
Close(closeErr) ==
    /\ ~Crashed
    /\ IF ~connected
       THEN /\ ret' = Ret("Close", Nil, NilAuth, 0)
            /\ UNCHANGED <<connected, clients, everClosed>>
       ELSE /\ connected' = FALSE
            /\ clients' = [clients EXCEPT ![client].closeCalls = @ + 1]
            /\ everClosed' = TRUE
            /\ ret' = Ret("Close", closeErr, NilAuth, 0)
    /\ UNCHANGED <<endpoint, client, session, stdin, stdout, auth, chans,
                   calls, explicit>>

\* ----------------------------------------------------------------- connect
\* agentOk: NewSSHAgentAuth(u) returned an AuthMethod (else nil and an error).
setAuthFromEndpoint(agentOk) ==
    LET u == IF endpoint.User # NoUser THEN endpoint.User ELSE ""
    IN  IF agentOk THEN [auth |-> AgentAuth(u), err |-> Nil]
        ELSE [auth |-> NilAuth, err |-> ErrAgent]

\* openSSHSession returning nil although StdoutPipe failed.
openSSHSession_IgnoreStdoutErr(cl, sessOk, inOk, outOk) ==
    LET h == Len(chans) + 1
        opened == Append(chans, [client |-> cl, started |-> FALSE, cmds |-> 0])
    IN  IF ~sessOk
        THEN [session |-> 0, stdin |-> stdin, stdout |-> stdout,
              chans |-> chans, err |-> ErrOpenSession]
        ELSE IF ~inOk
        THEN [session |-> h, stdin |-> 0, stdout |-> stdout,
              chans |-> opened, err |-> ErrStdin]
        ELSE [session |-> h, stdin |-> h, stdout |-> IF outOk THEN h ELSE 0,
              chans |-> opened, err |-> Nil]

\* The fields and the channels after openSSHSession on the new client cl.
\* sessOk, inOk, outOk: NewSession, StdinPipe, StdoutPipe returned no error.
openSSHSession(cl, sessOk, inOk, outOk) ==
    LET h == Len(chans) + 1
        opened == Append(chans, [client |-> cl, started |-> FALSE, cmds |-> 0])
    IN  IF ~sessOk
        THEN [session |-> 0, stdin |-> stdin, stdout |-> stdout,
              chans |-> chans, err |-> ErrOpenSession]
        ELSE IF ~inOk
        THEN [session |-> h, stdin |-> 0, stdout |-> stdout,
              chans |-> opened, err |-> ErrStdin]
        ELSE IF ~outOk
        THEN [session |-> h, stdin |-> h, stdout |-> 0,
              chans |-> opened, err |-> ErrStdout]
        ELSE [session |-> h, stdin |-> h, stdout |-> h,
              chans |-> opened, err |-> Nil]

\* connect resolving the auth before it looks at s.connected.
connect_AuthFirst(agentOk, dialOk, sessOk, inOk, outOk) ==
    /\ ~Crashed
    /\ LET a == setAuthFromEndpoint(agentOk) IN
       IF connected
       THEN /\ auth' = a.auth
            /\ ret' = Ret("connect", ErrAlreadyConnected, NilAuth, 0)
            /\ UNCHANGED <<connected, client, session, stdin, stdout,
                           clients, chans>>
       ELSE IF a.err # Nil
            THEN /\ auth' = a.auth
                 /\ ret' = Ret("connect", a.err, NilAuth, 0)
                 /\ UNCHANGED <<connected, client, session, stdin, stdout,
                                clients, chans>>
            ELSE IF ~dialOk
            THEN /\ auth' = a.auth
                 /\ client' = 0
                 /\ ret' = Ret("connect", ErrDial, a.auth, 0)
                 /\ UNCHANGED <<connected, session, stdin, stdout, clients,
                                chans>>
            ELSE LET cl == Len(clients) + 1
                     o == openSSHSession(cl, sessOk, inOk, outOk)
                 IN  /\ auth' = a.auth
                     /\ client' = cl
                     /\ session' = o.session
                     /\ stdin' = o.stdin
                     /\ stdout' = o.stdout
                     /\ chans' = o.chans
                     /\ clients' = Append(clients,
                            [closeCalls |-> IF o.err # Nil THEN 1 ELSE 0])
                     /\ connected' = (o.err = Nil)
                     /\ ret' = Ret("connect", o.err, a.auth, cl)
    /\ UNCHANGED <<endpoint, calls, explicit, everClosed>>

\* connect returning the error of openSSHSession without closing the client.
connect_NoRollback(agentOk, dialOk, sessOk, inOk, outOk) ==
    /\ ~Crashed
    /\ IF connected
       THEN /\ ret' = Ret("connect", ErrAlreadyConnected, NilAuth, 0)
            /\ UNCHANGED <<fields, clients, chans>>
       ELSE LET a == setAuthFromEndpoint(agentOk) IN
            IF a.err # Nil
            THEN /\ auth' = a.auth
                 /\ ret' = Ret("connect", a.err, NilAuth, 0)
                 /\ UNCHANGED <<connected, client, session, stdin, stdout,
                                clients, chans>>
            ELSE IF ~dialOk
            THEN /\ auth' = a.auth
                 /\ client' = 0
                 /\ ret' = Ret("connect", ErrDial, a.auth, 0)
                 /\ UNCHANGED <<connected, session, stdin, stdout, clients,
                                chans>>
            ELSE LET cl == Len(clients) + 1
                     o == openSSHSession(cl, sessOk, inOk, outOk)
                 IN  /\ auth' = a.auth
                     /\ client' = cl
                     /\ session' = o.session
                     /\ stdin' = o.stdin
                     /\ stdout' = o.stdout
                     /\ chans' = o.chans
                     /\ clients' = Append(clients, [closeCalls |-> 0])
                     /\ connected' = (o.err = Nil)
                     /\ ret' = Ret("connect", o.err, a.auth, cl)
    /\ UNCHANGED <<endpoint, calls, explicit, everClosed>>

\* The whole of connect: the guard, setAuthFromEndpoint, ssh.Dial with
\* s.auth, openSSHSession, and the client's Close when openSSHSession fails.
\* dialOk: ssh.Dial returned a client (else nil and an error).
connect(agentOk, dialOk, sessOk, inOk, outOk) ==
    /\ ~Crashed
    /\ IF connected
       THEN /\ ret' = Ret("connect", ErrAlreadyConnected, NilAuth, 0)
            /\ UNCHANGED <<fields, clients, chans>>
       ELSE LET a == setAuthFromEndpoint(agentOk) IN
            IF a.err # Nil
            THEN /\ auth' = a.auth
                 /\ ret' = Ret("connect", a.err, NilAuth, 0)
                 /\ UNCHANGED <<connected, client, session, stdin, stdout,
                                clients, chans>>
            ELSE IF ~dialOk
            THEN /\ auth' = a.auth
                 /\ client' = 0
                 /\ ret' = Ret("connect", ErrDial, a.auth, 0)
                 /\ UNCHANGED <<connected, session, stdin, stdout, clients,
                                chans>>
            ELSE LET cl == Len(clients) + 1
                     o == openSSHSession(cl, sessOk, inOk, outOk)
                 IN  /\ auth' = a.auth
                     /\ client' = cl
                     /\ session' = o.session
                     /\ stdin' = o.stdin
                     /\ stdout' = o.stdout
                     /\ chans' = o.chans
                     /\ clients' = Append(clients,
                            [closeCalls |-> IF o.err # Nil THEN 1 ELSE 0])
                     /\ connected' = (o.err = Nil)
                     /\ ret' = Ret("connect", o.err, a.auth, cl)
    /\ UNCHANGED <<endpoint, calls, explicit, everClosed>>

\* -------------------------------------------------------------- runCommand
\* A call of runCommand: where its goroutine stands (spawned, running,
\* sending, done, panicked), the value Run returned, and, while the goroutine
\* has not run yet, whether the session was Connected when the call was made.
Call(pc, val, conn) == [pc |-> pc, val |-> val, conn |-> conn]

\* calls with one call in state c replaced by one in state d.
Step(c, d) == (calls (-) SetToBag({c})) (+) SetToBag({d})

\* The call makes the done channel, starts the goroutine and returns.
runCommand ==
    /\ ~Crashed
    /\ BagCardinality(calls) < MaxCalls
    /\ calls' = calls (+) SetToBag({Call("spawned", Nil, connected)})
    /\ ret' = Ret("runCommand", Nil, NilAuth, 0)
    /\ UNCHANGED <<endpoint, fields, clients, chans, explicit, everClosed>>

\* The goroutine of a call c evaluates s.session.Run(cmd): a nil s.session is
\* a nil pointer dereference; Run on a channel that was started already, or
\* whose connection is closed, returns an error without starting a command;
\* otherwise the remote command starts and Run waits for it.
GoRun(c) ==
    /\ ~Crashed
    /\ c.pc = "spawned"
    /\ IF session = 0
       THEN /\ calls' = Step(c, Call("panicked", Nil, FALSE))
            /\ UNCHANGED chans
       ELSE IF chans[session].started
       THEN /\ calls' = Step(c, Call("sending", ErrSessionStarted, FALSE))
            /\ UNCHANGED chans
       ELSE IF ~ChanOpen(session)
       THEN /\ calls' = Step(c, Call("sending", ErrRun, FALSE))
            /\ UNCHANGED chans
       ELSE /\ calls' = Step(c, Call("running", Nil, FALSE))
            /\ chans' = [chans EXCEPT ![session].started = TRUE,
                                      ![session].cmds = @ + 1]
    /\ UNCHANGED <<endpoint, fields, clients, explicit, everClosed, ret>>

\* The remote command of a call c ends, or its connection is gone: Run
\* returns v and the goroutine blocks in the send on the unbuffered done
\* channel until the caller receives.
GoWait(c, v) ==
    /\ ~Crashed
    /\ c.pc = "running"
    /\ calls' = Step(c, Call("sending", v, FALSE))
    /\ UNCHANGED <<endpoint, fields, clients, chans, explicit, everClosed, ret>>

\* The caller receives the value from the done channel of a call c, and the
\* goroutine ends.
Receive(c) ==
    /\ ~Crashed
    /\ c.pc = "sending"
    /\ calls' = Step(c, Call("done", c.val, FALSE))
    /\ UNCHANGED <<endpoint, fields, clients, chans, explicit, everClosed, ret>>

\* --------------------------------------------------------------------- Next
\* A dial can succeed while the model has a client left to hand out.
DialOutcomes == IF Len(clients) < MaxDials THEN BOOLEAN ELSE {FALSE}

\* What the calls connect makes return, up to its first failure: the calls
\* after a failed one are not made.
ConnectOutcomes ==
    {o \in [agentOk : BOOLEAN, dialOk : DialOutcomes, sessOk : BOOLEAN,
            inOk : BOOLEAN, outOk : BOOLEAN] :
        /\ ~o.agentOk => ~o.dialOk
        /\ ~o.dialOk => ~o.sessOk
        /\ ~o.sessOk => ~o.inOk
        /\ ~o.inOk => ~o.outOk}

Next ==
    \/ (\E a \in SSHAuths \cup OtherAuths : SetAuth(a)) /\ UNCHANGED treeVars
    \/ (\E e \in {Nil, ErrClientClose} : Close(e)) /\ UNCHANGED treeVars
    \/ /\ \E o \in ConnectOutcomes :
            connect(o.agentOk, o.dialOk, o.sessOk, o.inOk, o.outOk)
       /\ UNCHANGED treeVars
    \/ runCommand /\ UNCHANGED treeVars
    \/ (\E c \in BagToSet(calls) : GoRun(c)) /\ UNCHANGED treeVars
    \/ /\ \E c \in BagToSet(calls), v \in {Nil, ErrRun} : GoWait(c, v)
       /\ UNCHANGED treeVars
    \/ (\E c \in BagToSet(calls) : Receive(c)) /\ UNCHANGED treeVars

Spec == Init /\ [][Next]_allVars

\* ===================================================== trees (part_000)
\* Bytes are one-character strings; SP is the space and NUL the zero byte.
SP == " "
NUL == "NUL"
\* io.EOF, and the errors of strconv.ParseInt.
EOF == "EOF"
ErrSyntax == "strconv.ParseInt: invalid syntax"
ErrRange == "strconv.ParseInt: value out of range"
\* The bytes of a core.Hash.
HashLen == 20
\* The buffer of bufio.NewReader: no read of the underlying reader returns
\* more.
DefaultBufSize == 4096

Min2(a, b) == IF a < b THEN a ELSE b

\* strconv.ParseInt(s, 8, 32) on bytes: the value of the octal digits, a
\* syntax error on an empty string or any other byte, a range error above
\* 2^31 - 1.
DigitVal ==
    [d \in {"0", "1", "2", "3", "4", "5", "6", "7"} |->
        CASE d = "0" -> 0 [] d = "1" -> 1 [] d = "2" -> 2 [] d = "3" -> 3
          [] d = "4" -> 4 [] d = "5" -> 5 [] d = "6" -> 6 [] d = "7" -> 7]

RECURSIVE StripZeros(_)
StripZeros(s) ==
    IF Len(s) > 1 /\ s[1] = "0" THEN StripZeros(Tail(s)) ELSE s

RECURSIVE OctalValue(_)
OctalValue(s) ==
    IF s = <<>> THEN 0
    ELSE 8 * OctalValue(SubSeq(s, 1, Len(s) - 1)) + DigitVal[s[Len(s)]]

ParseInt(s) ==
    IF s = <<>> \/ \E i \in DOMAIN s : s[i] \notin DOMAIN DigitVal
    THEN [val |-> 0, err |-> ErrSyntax]
    ELSE LET z == StripZeros(s) IN
         IF Len(z) > 11 \/ (Len(z) = 11 /\ DigitVal[z[1]] > 1)
         THEN [val |-> 2147483647, err |-> ErrRange]
         ELSE [val |-> OctalValue(z), err |-> Nil]

\* A bufio.Reader over the bytes data, whose underlying reader returns at
\* most k bytes a read: pos is the next unread byte and w the number of bytes
\* fetched from the underlying reader so far (the buffer holds pos..w).
NewReader == [pos |-> 1, w |-> 0]

\* fill() repeated until byte upto is buffered or the data ends.
RECURSIVE Fetch(_, _, _, _)
Fetch(data, k, w, upto) ==
    IF w >= upto \/ w >= Len(data) THEN w
    ELSE Fetch(data, k, Min2(Len(data), w + k), upto)

\* r.ReadString(delim): the bytes up to and including the first delim; at the
\* end of the data, the bytes that are left and io.EOF.
ReadString(data, k, rd, delim) ==
    LET hits == {i \in rd.pos..Len(data) : data[i] = delim}
    IN  IF hits # {}
        THEN LET d == CHOOSE i \in hits : \A j \in hits : i <= j
             IN  [str |-> SubSeq(data, rd.pos, d), err |-> Nil,
                  rd |-> [pos |-> d + 1, w |-> Fetch(data, k, rd.w, d)]]
        ELSE [str |-> SubSeq(data, rd.pos, Len(data)), err |-> EOF,
              rd |-> [pos |-> Len(data) + 1, w |-> Len(data)]]

\* r.Read(p) with len(p) = n: what the buffer holds, at most n bytes; on an
\* empty buffer the bytes of one read of the underlying reader, at most n;
\* io.EOF at the end of the data.
Read(data, k, rd, n) ==
    IF rd.pos > rd.w /\ rd.w >= Len(data)
    THEN [bytes |-> <<>>, err |-> EOF, rd |-> rd]
    ELSE LET w2 == IF rd.pos > rd.w THEN Min2(Len(data), rd.w + k) ELSE rd.w
             cnt == Min2(n, w2 - rd.pos + 1)
         IN  [bytes |-> SubSeq(data, rd.pos, rd.pos + cnt - 1), err |-> Nil,
              rd |-> [pos |-> rd.pos + cnt, w |-> w2]]

\* A Tree: Entries maps a name (bytes) to its TreeEntry.
NoEntries == [n \in {} |-> 0]
NewTree == [Entries |-> NoEntries, Hash |-> <<>>]
TreeEntry(name, mode, hash) == [Name |-> name, Mode |-> mode, Hash |-> hash]

\* Let(v, F) is F(v), with v evaluated once and then named.
Let(v, F(_)) == CHOOSE r \in {F(x) : x \in {v}} : TRUE

\* The loop of Decode from the reader state rd on: the entries, the error
\* returned, and whether name[:len(name)-1] was taken of an empty name.
RECURSIVE DecodeLoop(_, _, _, _)
DecodeLoop(data, k, rd, entries) ==
    Let(ReadString(data, k, rd, SP), LAMBDA m :
    IF m.err # Nil
    THEN [Entries |-> entries, err |-> Nil, panic |-> FALSE]
    ELSE Let(ParseInt(SubSeq(m.str, 1, Len(m.str) - 1)), LAMBDA fm :
    IF fm.err # Nil
    THEN [Entries |-> entries, err |-> fm.err, panic |-> FALSE]
    ELSE Let(ReadString(data, k, m.rd, NUL), LAMBDA nm :
         Let(Read(data, k, nm.rd, HashLen), LAMBDA h :
         LET hash == h.bytes \o [i \in 1..(HashLen - Len(h.bytes)) |-> NUL]
         IN  IF nm.str = <<>>
             THEN [Entries |-> entries, err |-> Nil, panic |-> TRUE]
             ELSE LET baseName == SubSeq(nm.str, 1, Len(nm.str) - 1)
                  IN  Let((baseName :> TreeEntry(baseName, fm.val, hash))
                              @@ entries,
                          LAMBDA es : DecodeLoop(data, k, h.rd, es))))))

\* Decode testing the size before it sets t.Hash.
Decode_SizeCheckFirst(t, o, k) ==
    IF o.Size = 0
    THEN [Hash |-> t.Hash, Entries |-> t.Entries, err |-> Nil, panic |-> FALSE]
    ELSE Let(o.Data, LAMBDA data :
         Let(DecodeLoop(data, k, NewReader, NoEntries), LAMBDA r :
             [Hash |-> o.Hash, Entries |-> r.Entries, err |-> r.err,
              panic |-> r.panic]))

\* t.Decode(o) with the object's reader returning at most k bytes a read: the
\* tree afterwards, the error returned, and whether Decode panicked.
Decode(t, o, k) ==
    IF o.Size = 0
    THEN [Hash |-> o.Hash, Entries |-> t.Entries, err |-> Nil, panic |-> FALSE]
    ELSE Let(o.Data, LAMBDA data :
         Let(DecodeLoop(data, k, NewReader, NoEntries), LAMBDA r :
             [Hash |-> o.Hash, Entries |-> r.Entries, err |-> r.err,
              panic |-> r.panic]))

\* The tree binary format: <octal mode> SP <name> NUL <hash>, repeated.  A
\* record carries its mode as octal digits.
RECURSIVE Encode(_)
Encode(recs) ==
    IF recs = <<>> THEN <<>>
    ELSE recs[1].Mode \o <<SP>> \o recs[1].Name \o <<NUL>> \o recs[1].Hash
            \o Encode(Tail(recs))

\* --------------------------------------------------------------- TreeIter
\* The most records of one tree object, and the most bytes of a short read.
MaxRecords == 2
MaxChunk == 2

HashOf(b) == [i \in 1..HashLen |-> b]

\* The records tree objects are made of: a directory, a regular file, and a
\* record whose mode is no octal number.
DirMode == <<"4", "0", "0", "0", "0">>
FileMode == <<"1", "0", "0", "6", "4", "4">>
BadMode == <<"9">>
Names == {<<"a">>, <<"b">>}
Records ==
    {[Name |-> n, Mode |-> k.m, Hash |-> HashOf(k.h)] :
        n \in Names,
        k \in {[m |-> DirMode, h |-> "p"], [m |-> FileMode, h |-> "q"],
               [m |-> BadMode, h |-> "q"]}}
RecordLists == UNION {[1..n -> Records] : n \in 0..MaxRecords}

\* The Tree-typed object with the bytes data.
TreeObject(data) ==
    [Type |-> "tree", Hash |-> HashOf("t"), Size |-> Len(data), Data |-> data]

\* A TreeIter whose feed holds one tree object: the first cut bytes of the
\* encoding of recs; its reader returns at most k bytes a read.
InitDecode ==
    /\ NewSession([User |-> NoUser])
    /\ \E recs \in RecordLists :
        \E cut \in 0..Len(Encode(recs)) :
            /\ input = [recs |-> recs, cut |-> cut]
            /\ ch = [items |-> <<TreeObject(SubSeq(Encode(recs), 1, cut))>>,
                     closed |-> FALSE]
    /\ split \in (1..MaxChunk) \cup {DefaultBufSize}
    /\ result = [op |-> "none"]
    /\ NoRepo
    /\ WalkIdle

\* The feed closes i.ch once it has no further object.
CloseFeed ==
    /\ ~ch.closed
    /\ ch' = [ch EXCEPT !.closed = TRUE]
    /\ UNCHANGED <<input, split, result, walkVars, vars>>

\* i.Next(): blocks on an empty open channel; a closed and drained channel
\* yields nil.  A pointer is <<>> when nil, else <<x>> for the x it points to;
\* panic says that Decode panicked, so that Next returned nothing.
TreeIterNext ==
    /\ result.op = "Next" => ~result.panic
    /\ ch.items # <<>> \/ ch.closed
    /\ IF ch.items = <<>>
       THEN /\ result' = [op |-> "Next", obj |-> <<>>, tree |-> <<>>,
                          err |-> EOF, panic |-> FALSE]
            /\ ch' = ch
       ELSE LET obj == Head(ch.items)
                d == Decode(NewTree, obj, split)
            IN  /\ result' = [op |-> "Next", obj |-> <<obj>>,
                              tree |-> <<[Entries |-> d.Entries,
                                          Hash |-> d.Hash]>>,
                              err |-> d.err, panic |-> d.panic]
                /\ ch' = [ch EXCEPT !.items = Tail(@)]
    /\ UNCHANGED <<input, split, walkVars, vars>>

NextDecode ==
    \/ CloseFeed
    \/ TreeIterNext

SpecDecode == InitDecode /\ [][NextDecode]_allVars

\* ------------------------------------------------------------- repository
\* The levels of trees below the root tree.
MaxDepth == 2

\* Object types, and the objects other than trees that a repository holds: two
\* blobs and a commit.  No object has the hash AbsentHash.
BlobObject == "blob"
TreeObjectType == "tree"
CommitObject == "commit"
BlobF == [Type |-> BlobObject, Hash |-> HashOf("f"), Size |-> 1,
          Data |-> <<"x">>]
BlobG == [Type |-> BlobObject, Hash |-> HashOf("g"), Size |-> 2,
          Data |-> <<"x", "y">>]
CommitC == [Type |-> CommitObject, Hash |-> HashOf("c"), Size |-> 3,
            Data |-> <<"x", "y", "z">>]
AbsentHash == HashOf("x")
SubmoduleMode == <<"1", "6", "0", "0", "0", "0">>

\* The tree object of level i (1 is the root) has the hash TreeHash(i).
LevelBytes == <<"1", "2", "3", "4", "5", "6">>
TreeHash(i) == HashOf(LevelBytes[i])

\* What a tree of level i names "a" and "b": nothing, a blob, the commit, a
\* hash that is not in the store, or the tree of the next level; bad says
\* that a record whose mode does not parse follows its records.
KindsA == {"none", "f", "c", "x", "sub"}
KindsB == {"none", "g"}
Target(i, k) ==
    CASE k = "f" -> BlobF.Hash
      [] k = "g" -> BlobG.Hash
      [] k = "c" -> CommitC.Hash
      [] k = "x" -> AbsentHash
      [] k = "sub" -> TreeHash(i + 1)
ModeOf(k) ==
    CASE k \in {"f", "g"} -> FileMode
      [] k \in {"c", "x"} -> SubmoduleMode
      [] k = "sub" -> DirMode
RecordOf(i, name, k) ==
    IF k = "none" THEN <<>>
    ELSE <<[Name |-> name, Mode |-> ModeOf(k), Hash |-> Target(i, k)]>>
RecordsOf(r, i) ==
    RecordOf(i, <<"a">>, r[i].a) \o RecordOf(i, <<"b">>, r[i].b)
        \o (IF r[i].bad
            THEN <<[Name |-> <<"c">>, Mode |-> BadMode, Hash |-> BlobG.Hash]>>
            ELSE <<>>)
TreeObjectAt(r, i) ==
    [Type |-> TreeObjectType, Hash |-> TreeHash(i),
     Size |-> Len(Encode(RecordsOf(r, i))), Data |-> Encode(RecordsOf(r, i))]

\* Every level is reached from the root through "a" or names nothing; the
\* root decodes, and the last level names no tree.
Repos ==
    {r \in [1..(MaxDepth + 1) -> [a : KindsA, b : KindsB, bad : BOOLEAN]] :
        \A i \in 1..(MaxDepth + 1) :
            /\ i = 1 => ~r[i].bad
            /\ i = MaxDepth + 1 => r[i].a # "sub"
            /\ (i > 1 /\ r[i - 1].a # "sub") =>
                    r[i] = [a |-> "none", b |-> "none", bad |-> FALSE]}

\* t.r.Storage of the repository r, by hash.
Storage(r) ==
    [h \in {BlobF.Hash, BlobG.Hash, CommitC.Hash}
            \cup {TreeHash(i) : i \in 1..(MaxDepth + 1)} |->
        IF h = BlobF.Hash THEN BlobF
        ELSE IF h = BlobG.Hash THEN BlobG
        ELSE IF h = CommitC.Hash THEN CommitC
        ELSE TreeObjectAt(r, CHOOSE i \in 1..(MaxDepth + 1) : TreeHash(i) = h)]

\* Storage.Get(h): the object, or nothing.
Get(st, h) == IF h \in DOMAIN st THEN <<st[h]>> ELSE <<>>

\* The tree the operations are called on: the root tree object of the store
\* st, decoded.
Root(st) ==
    LET d == Decode(NewTree, st[TreeHash(1)], DefaultBufSize)
    IN  [Entries |-> d.Entries, Hash |-> d.Hash]

\* ------------------------------------------------------------- Tree.File
ErrFileNotFound == "file not found"
errDirNotFound == "directory not found"
errEntryNotFound == "entry not found"
Slash == "/"

\* strings.Split(path, "/")
RECURSIVE Split(_)
Split(path) ==
    LET hits == {i \in DOMAIN path : path[i] = Slash}
    IN  IF hits = {} THEN <<path>>
        ELSE LET i == CHOOSE x \in hits : \A y \in hits : x <= y
             IN  <<SubSeq(path, 1, i - 1)>>
                    \o Split(SubSeq(path, i + 1, Len(path)))

\* filepath.Join(base, name), for elements that need no cleaning.
Join(base, name) ==
    IF base = <<>> THEN name
    ELSE IF name = <<>> THEN base
    ELSE base \o <<Slash>> \o name

entry(t, baseName) ==
    IF baseName \in DOMAIN t.Entries
    THEN [entry |-> <<t.Entries[baseName]>>, err |-> Nil]
    ELSE [entry |-> <<>>, err |-> errEntryNotFound]

dir(st, t, baseName) ==
    LET e == entry(t, baseName) IN
    IF e.err # Nil THEN [tree |-> <<>>, err |-> errDirNotFound]
    ELSE LET o == Get(st, e.entry[1].Hash) IN
    IF o = <<>> THEN [tree |-> <<>>, err |-> errDirNotFound]
    ELSE IF o[1].Type # TreeObjectType
    THEN [tree |-> <<>>, err |-> errDirNotFound]
    ELSE LET d == Decode(NewTree, o[1], DefaultBufSize)
         IN  [tree |-> <<[Entries |-> d.Entries, Hash |-> d.Hash]>>,
              err |-> Nil]

\* The loop of findHash and what follows it, from the tree `tree` on.
RECURSIVE findHashLoop(_, _, _)
findHashLoop(st, tree, pathParts) ==
    IF Len(pathParts) > 1
    THEN LET d == dir(st, tree, pathParts[1])
         IN  IF d.err # Nil THEN [hash |-> <<>>, err |-> d.err]
             ELSE findHashLoop(st, d.tree[1], Tail(pathParts))
    ELSE LET e == entry(tree, pathParts[1])
         IN  IF e.err # Nil THEN [hash |-> <<>>, err |-> e.err]
             ELSE [hash |-> <<e.entry[1].Hash>>, err |-> Nil]

findHash(st, t, path) == findHashLoop(st, t, Split(path))

\* File returning the error findHash returned.
File_PassError(st, t, path) ==
    LET h == findHash(st, t, path) IN
    IF h.err # Nil THEN [file |-> <<>>, err |-> h.err]
    ELSE LET o == Get(st, h.hash[1]) IN
    IF o = <<>> THEN [file |-> <<>>, err |-> ErrFileNotFound]
    ELSE IF o[1].Type # BlobObject
    THEN [file |-> <<>>, err |-> ErrFileNotFound]
    ELSE [file |-> <<[Name |-> path, Hash |-> h.hash[1], Size |-> o[1].Size]>>,
          err |-> Nil]

\* t.File(path): the *File (without its Reader) and the error.
File(st, t, path) ==
    LET h == findHash(st, t, path) IN
    IF h.err # Nil THEN [file |-> <<>>, err |-> ErrFileNotFound]
    ELSE LET o == Get(st, h.hash[1]) IN
    IF o = <<>> THEN [file |-> <<>>, err |-> ErrFileNotFound]
    ELSE IF o[1].Type # BlobObject
    THEN [file |-> <<>>, err |-> ErrFileNotFound]
    ELSE [file |-> <<[Name |-> path, Hash |-> h.hash[1], Size |-> o[1].Size]>>,
          err |-> Nil]

\* The paths File is called with: up to MaxDepth + 2 names joined by "/".
SegLists == UNION {[1..n -> Names] : n \in 1..(MaxDepth + 2)}
RECURSIVE JoinAll(_)
JoinAll(segs) ==
    IF Len(segs) = 1 THEN segs[1]
    ELSE segs[1] \o <<Slash>> \o JoinAll(Tail(segs))

InitFile ==
    /\ NewSession([User |-> NoUser])
    /\ DecodeIdle
    /\ WalkIdle
    /\ repo \in Repos
    /\ store = Storage(repo)

\* A call of t.File on the root tree with the path of the names segs.  File
\* changes nothing, so one call from each repository shows all it does.
CallFile(segs) ==
    LET r == File(store, Root(store), JoinAll(segs))
    IN  /\ result.op = "none"
        /\ result' = [op |-> "File", path |-> JoinAll(segs), file |-> r.file,
                      err |-> r.err]
        /\ input' = segs
        /\ UNCHANGED <<split, ch, walkVars, vars>>

NextFile == \E segs \in SegLists : CallFile(segs)

SpecFile == InitFile /\ [][NextFile]_allVars

\* ------------------------------------------------------------ Tree.Files
\* make(chan *File, 1)
ChanCap == 1

InitFiles ==
    /\ NewSession([User |-> NoUser])
    /\ DecodeIdle
    /\ WalkIdle
    /\ repo \in Repos
    /\ store = Storage(repo)

\* t.Files() on the root tree: makes the channel and starts the goroutine,
\* which calls t.walkEntries("", ch).  A call of walkEntries in progress is its
\* base, the entries of its tree and the names its range has still to visit.
Files ==
    /\ ~files.made
    /\ files' = [made |-> TRUE, buf |-> <<>>, closes |-> 0]
    /\ stack' = <<[base |-> <<>>, Entries |-> Root(store).Entries,
                   todo |-> DOMAIN Root(store).Entries]>>
    /\ UNCHANGED <<repo, store, got, decodeVars, vars>>

\* One iteration of the range loop of the innermost walkEntries, on the entry
\* named n: an object the store lacks is skipped, a tree is decoded and
\* walked, anything else is sent as a *File.  Iterate(n) is the stack and the
\* channel's buffer after it, and whether it sends.
Iterate(n) ==
    LET top == stack[Len(stack)]
        rest == SubSeq(stack, 1, Len(stack) - 1)
        e == top.Entries[n]
        o == Get(store, e.Hash)
        after == [top EXCEPT !.todo = @ \ {n}]
    IN  IF o = <<>>
        THEN [sends |-> FALSE, stack |-> rest \o <<after>>, buf |-> files.buf]
        ELSE IF o[1].Type = TreeObjectType
        THEN LET d == Decode(NewTree, o[1], DefaultBufSize)
             IN  [sends |-> FALSE,
                  stack |-> rest \o <<after,
                                      [base |-> Join(top.base, e.Name),
                                       Entries |-> d.Entries,
                                       todo |-> DOMAIN d.Entries]>>,
                  buf |-> files.buf]
        ELSE [sends |-> TRUE, stack |-> rest \o <<after>>,
              buf |-> files.buf \o <<(<<[Name |-> Join(top.base, e.Name),
                                         Hash |-> e.Hash,
                                         Size |-> o[1].Size]>>)>>]

\* The order of a map range is unspecified: any name not yet visited is next.
\* A send blocks while the channel's buffer is full.
walkEntries(n) ==
    /\ stack # <<>>
    /\ n \in stack[Len(stack)].todo
    /\ \E it \in {Iterate(n)} :
        /\ it.sends => Len(files.buf) < ChanCap
        /\ stack' = it.stack
        /\ files' = [files EXCEPT !.buf = it.buf]
    /\ UNCHANGED <<repo, store, got, decodeVars, vars>>

\* walkReturn closing the channel whenever a walkEntries returns.
walkReturn_CloseEach ==
    /\ stack # <<>>
    /\ stack[Len(stack)].todo = {}
    /\ stack' = SubSeq(stack, 1, Len(stack) - 1)
    /\ files' = [files EXCEPT !.closes = @ + 1]
    /\ UNCHANGED <<repo, store, got, decodeVars, vars>>

\* The innermost walkEntries has visited every entry and returns; when it is
\* the outermost one, the goroutine ends and its deferred close(ch) runs.
walkReturn ==
    /\ stack # <<>>
    /\ stack[Len(stack)].todo = {}
    /\ stack' = SubSeq(stack, 1, Len(stack) - 1)
    /\ files' = IF Len(stack) = 1 THEN [files EXCEPT !.closes = @ + 1]
                ELSE files
    /\ UNCHANGED <<repo, store, got, decodeVars, vars>>

\* The consumer receives the next *File from the channel.
ReceiveFile ==
    /\ files.buf # <<>>
    /\ got' = got (+) SetToBag({Head(files.buf)})
    /\ files' = [files EXCEPT !.buf = Tail(@)]
    /\ UNCHANGED <<repo, store, stack, decodeVars, vars>>

Producer == (\E n \in Names : walkEntries(n)) \/ walkReturn

NextFiles ==
    \/ Files
    \/ \E n \in Names : walkEntries(n)
    \/ walkReturn
    \/ ReceiveFile

\* The goroutine is scheduled, and the consumer keeps receiving.
SpecFiles ==
    InitFiles /\ [][NextFiles]_allVars
        /\ WF_allVars(Producer) /\ WF_allVars(ReceiveFile)

\* ================================================================== claims
\* The step is a call of method op: every call flips ret.seq.
IsCall(op) == ret'.seq # ret.seq /\ ret'.op = op

\* The username setAuthFromEndpoint derives the default auth from.
EndpointUsername == IF endpoint.User # NoUser THEN endpoint.User ELSE ""

OpenChans == {h \in DOMAIN chans : ChanOpen(h)}

\* C1: whenever connect() has dialled, the auth it handed to ssh.Dial is the
\* AuthMethod that SetAuth accepted before, when there is one, and the
\* agent-based default for the endpoint's username only when there is none.
C1_SetAuthIsUsed ==
    (ret.op = "connect" /\ ret.dialAuth # NilAuth) =>
        ret.dialAuth = (IF explicit # NilAuth THEN explicit
                        ELSE AgentAuth(EndpointUsername))

\* C2: a call of connect() that finds the session Connected returns
\* ErrAlreadyConnected and leaves connected, client, session, stdin, stdout
\* and auth as they were, dials no client and opens no channel.
C2_AlreadyConnected ==
    [][(IsCall("connect") /\ connected) =>
            (/\ ret'.err = ErrAlreadyConnected
             /\ UNCHANGED <<fields, clients, chans>>)]_vars

C2_Witness ==
    /\ ret.op = "connect" /\ ret.conn /\ ret.err = ErrAlreadyConnected
    /\ connected /\ auth = AgentAuth(EndpointUsername) /\ Len(clients) = 1

\* C3: the goroutine of a runCommand call made while the session was not
\* Connected delivers ErrNotConnected and invokes Run on no channel: its step
\* leaves every channel as it was and ends with ErrNotConnected to send.
C3_NotConnected ==
    [][\A c \in BagToSet(calls) :
            (c.pc = "spawned" /\ ~c.conn /\ CopiesIn(c, calls') < CopiesIn(c, calls))
                => (/\ chans' = chans
                    /\ calls' = Step(c, Call("sending", ErrNotConnected, FALSE)))]_vars

\* C4: after a connect() that failed at one of its steps the session is not
\* Connected and the client its dial returned, if any, has been closed; and
\* connect() returns nil only with the session Connected.
ConnectStepErrors == {ErrAgent, ErrDial, ErrOpenSession, ErrStdin, ErrStdout}

C4_FailedConnect ==
    /\ (ret.op = "connect" /\ ret.err \in ConnectStepErrors) =>
            (~connected /\ (ret.dialled # 0 => ~ClientOpen(ret.dialled)))
    /\ (ret.op = "connect" /\ ret.err = Nil) => connected

C4_Witness ==
    /\ ret.op = "connect" /\ ret.err = ErrStdout /\ ~connected
    /\ ret.dialled # 0 /\ clients[ret.dialled].closeCalls = 1

\* C5: a Connected session holds an open client, a command channel opened on
\* that client, the stdin and stdout pipes of that channel, and that channel
\* is the only open one.
C5_ConnectedIsComplete ==
    connected =>
        /\ client # 0 /\ ClientOpen(client)
        /\ session # 0 /\ chans[session].client = client
        /\ stdin = session /\ stdout = session
        /\ OpenChans = {session}

C5_Witness == connected /\ everClosed /\ client = 2 /\ session = 2

C7_CloseReleases ==
    (ret.op = "Close" /\ ret.conn) =>
        (~connected /\ client # 0 /\ clients[client].closeCalls = 1)

C7_Witness ==
    /\ ret.op = "Close" /\ ret.conn /\ ret.err = ErrClientClose /\ ~connected
    /\ \E c \in BagToSet(calls) : c.pc = "running"

\* C8: a call of Close() that finds the session not Connected returns nil and
\* leaves every field, every client and every channel as it was; and no
\* client has Close called on it more than once.
C8_CloseDisconnected ==
    /\ [](\A c \in DOMAIN clients : clients[c].closeCalls <= 1)
    /\ [][(IsCall("Close") /\ ~connected) =>
            (/\ ret'.err = Nil
             /\ UNCHANGED <<fields, clients, chans>>)]_vars

C8_Witness ==
    /\ ret.op = "Close" /\ ~ret.conn /\ ret.err = Nil /\ everClosed
    /\ client # 0 /\ clients[client].closeCalls = 1

Delivered(c) == IF c.pc = "done" THEN 1 ELSE 0

C10_SingleShot ==
    \A c \in BagToSet(calls) : c.pc \in {"done", "panicked"} => Delivered(c) = 1

\* C20: a call of SetAuth with a value that is no ssh AuthMethod returns
\* ErrInvalidAuthMethod and leaves auth and every other field as they were; a
\* call with an ssh AuthMethod returns nil, sets auth to it and leaves every
\* other field as it was.
C20_SetAuthFrame ==
    [][\A a \in SSHAuths \cup OtherAuths :
            (IsCall("SetAuth") /\ SetAuth(a)) =>
                IF a \in SSHAuths
                THEN /\ ret'.err = Nil
                     /\ auth' = a
                     /\ UNCHANGED <<connected, client, session, stdin, stdout,
                                    clients, chans>>
                ELSE /\ ret'.err = ErrInvalidAuthMethod
                     /\ UNCHANGED <<fields, clients, chans>>]_vars

C20_Witness ==
    /\ ret.op = "SetAuth" /\ ret.err = ErrInvalidAuthMethod
    /\ auth \in SSHAuths /\ connected

\* ------------------------------------------------------------ tree claims
\* Next took an object from the feed and called Decode on it.
Decoded == result.op = "Next" /\ result.obj # <<>>

\* The records of the input all carry an octal mode, and no two of them the
\* same name.
ValidModes == \A i \in DOMAIN input.recs : input.recs[i].Mode # BadMode
DistinctNames ==
    \A i, j \in DOMAIN input.recs :
        input.recs[i].Name = input.recs[j].Name => i = j

\* The lengths at which the encoding of recs ends between two records.
Boundaries(recs) == {Len(Encode(SubSeq(recs, 1, i))) : i \in 0..Len(recs)}

\* C16: Decode of an object of size zero returns no error and yields a tree
\* with no entries whose Hash is the object's hash.
C16_ZeroSize ==
    (Decoded /\ result.obj[1].Size = 0) =>
        /\ ~result.panic
        /\ result.err = Nil
        /\ DOMAIN result.tree[1].Entries = {}
        /\ result.tree[1].Hash = result.obj[1].Hash

C16_Witness ==
    /\ Decoded /\ result.obj[1].Size = 0
    /\ result.err = Nil /\ result.tree[1].Hash = HashOf("t")

\* C15: read as a whole, a stream of records that ends at a record boundary
\* decodes without error, and one that ends inside a record makes Decode
\* return an error, with no entry for the record that is cut.
C15_TruncationFails ==
    (Decoded /\ split = DefaultBufSize /\ ValidModes /\ DistinctNames) =>
        /\ ~result.panic
        /\ IF input.cut \in Boundaries(input.recs)
           THEN result.err = Nil
           ELSE /\ result.err # Nil
                /\ \A n \in DOMAIN result.tree[1].Entries :
                     \E i \in DOMAIN input.recs :
                        /\ input.recs[i].Name = n
                        /\ Len(Encode(SubSeq(input.recs, 1, i))) <= input.cut

\* C17: the encoding of records with distinct names decodes to exactly those
\* names, each with its mode and its hash, whatever the size of the reads.
C17_RoundTrip ==
    (/\ Decoded /\ ValidModes /\ DistinctNames
     /\ input.cut = Len(Encode(input.recs))) =>
        /\ ~result.panic
        /\ result.err = Nil
        /\ DOMAIN result.tree[1].Entries =
                {input.recs[i].Name : i \in DOMAIN input.recs}
        /\ \A i \in DOMAIN input.recs :
                result.tree[1].Entries[input.recs[i].Name] =
                    TreeEntry(input.recs[i].Name,
                              OctalValue(input.recs[i].Mode),
                              input.recs[i].Hash)

\* C19: Next returns a nil tree and io.EOF exactly when the feed has no
\* further object; for an object taken from the feed it returns a tree that
\* is not nil together with the result of Decode, which is never io.EOF.
C19_EOFMeansExhausted ==
    result.op = "Next" =>
        /\ ~result.panic
        /\ result.obj = <<>> => result.tree = <<>> /\ result.err = EOF
        /\ result.obj # <<>> => result.tree # <<>> /\ result.err # EOF

\* What the names segs lead to from the tree of level i: what the last name
\* is bound to there, or "lost" when a name before the last leads to no tree.
RECURSIVE Leads(_, _, _)
Leads(r, i, segs) ==
    LET k == IF segs[1] = <<"a">> THEN r[i].a ELSE r[i].b
    IN  IF Len(segs) = 1 THEN k
        ELSE IF k = "sub" THEN Leads(r, i + 1, Tail(segs))
        ELSE "lost"

\* C11: File returns ErrFileNotFound and no File when a name of the path is
\* bound to nothing in its tree, or to a hash the store lacks, when a name
\* before the last leads to an object that is no tree, and when the last name
\* leads to an object that is no blob.
C11_FileNotFound ==
    (result.op = "File" /\ Leads(repo, 1, input) \notin {"f", "g"}) =>
        result.err = ErrFileNotFound /\ result.file = <<>>

C11_Witness ==
    /\ result.op = "File" /\ result.err = ErrFileNotFound
    /\ Len(input) = 3 /\ input[1] = <<"a">> /\ input[2] = <<"a">>
    /\ repo[1].a = "sub" /\ repo[2].a = "c"

\* The resolution of the path decoded a tree object whose Decode fails.
ResolvedThroughBadTree ==
    \E i \in 2..Len(input) :
        /\ i <= MaxDepth + 1
        /\ repo[i].bad
        /\ \A j \in 1..(i - 1) : input[j] = <<"a">> /\ repo[j].a = "sub"

\* C18: a call of File whose resolution decodes a subtree on which Decode
\* fails does not succeed: the failure reaches the caller.
C18_DecodeFailureSurfaces ==
    (result.op = "File" /\ ResolvedThroughBadTree) => result.err # Nil

\* The paths of the blobs reached from the tree of level i, under base.
RECURSIVE BlobLeaves(_, _, _)
BlobLeaves(r, i, base) ==
    (IF r[i].a = "f" THEN {Join(base, <<"a">>)} ELSE {})
        \cup (IF r[i].b = "g" THEN {Join(base, <<"b">>)} ELSE {})
        \cup (IF r[i].a = "sub"
              THEN BlobLeaves(r, i + 1, Join(base, <<"a">>))
              ELSE {})

\* The channel is closed and the consumer has received all it held.
Drained == files.closes > 0 /\ files.buf = <<>>

\* C12: once Files() is drained, no path was emitted twice and the paths
\* emitted are exactly those of the blobs reached from the tree through
\* entries whose hashes are in the store, whatever the order of the ranges.
C12_FilesAreBlobLeaves ==
    Drained =>
        /\ \A f \in BagToSet(got) : CopiesIn(f, got) = 1
        /\ \A f, g \in BagToSet(got) : f[1].Name = g[1].Name => f = g
        /\ {f[1].Name : f \in BagToSet(got)} = BlobLeaves(repo, 1, <<>>)

\* C13: for every File f that Files() emitted, File(f.Name) on the same tree
\* returns no error and a File with the name, the hash and the size of f.
C13_FileFindsEmitted ==
    \A f \in BagToSet(got) :
        File(store, Root(store), f[1].Name) = [file |-> f, err |-> Nil]

\* Every *File in the channel or received from it.
Sent == {files.buf[i] : i \in DOMAIN files.buf} \cup BagToSet(got)

\* C14: the channel of Files() is closed at most once, and only when the walk
\* is over and the File of every blob reached has been sent; nothing is sent
\* after the close, no nil *File is ever sent, and once Files() has been
\* called the channel is eventually closed.
C14_ClosedOnceAtEnd ==
    /\ [](files.closes <= 1)
    /\ [](files.closes = 1 =>
            /\ stack = <<>>
            /\ BlobLeaves(repo, 1, <<>>) \subseteq {f[1].Name : f \in Sent})
    /\ [](<<>> \notin Sent)
    /\ [][files.closes = 1 => Len(files'.buf) <= Len(files.buf)]_allVars
    /\ (files.made ~> files.closes = 1)

C14_Witness ==
    /\ files.closes = 1 /\ files.buf = <<>>
    /\ BagCardinality(got) = 3
    /\ repo[1].a = "sub" /\ repo[2].a = "sub"

====
